---- MODULE Spec2Model ----
(***************************************************************************)
(* Wear tracking of the wardrobe tracker: the clothing_items and           *)
(* wear_history tables with their row-level-security policies and the      *)
(* update_clothing_item_stats trigger, the client handlers that write to   *)
(* them (AddItem.proceedWithSave, handleAddWear), the statistics computed *)
(* from the item list (Overview.fetchStats, ItemDetail), the suggestions   *)
(* cache (utils/suggestions.ts), the image upload loop                     *)
(* (utils/imageUpload.ts), the local state of QuickWearTracker and         *)
(* ItemDetail, ClothingImagePicker, and the saves with images of AddItem   *)
(* and ItemDetail.                                                         *)
(***************************************************************************)
EXTENDS Integers, Sequences, FiniteSets, Bags, TLC

\* ------------------------------------------------------------------ bounds
MaxItems == 2
MaxWear == 3
MaxDate == 2
MaxSeed == 2

\* SQL NULL / JS null. Dates are 1..MaxDate, prices and ids are >= 0, and the
\* columns that can go negative (times_worn) are never NULL in the model.
NULL == -1

Users == {"u1", "u2"}
Clients == {"c1", "c2"}
Dates == 1..MaxDate

VARIABLES
  clothing_items,  \* table clothing_items: set of rows
  wear_history,    \* table wear_history: bag of rows; the generated id column
                   \* makes two rows with equal columns two rows
  itemSeq,         \* ids handed out so far by clothing_items.id DEFAULT
  session,         \* client -> the signed-in user (useAuth().user.id)
  pc,              \* client -> position in the handler it is running
  ctx,             \* client -> the handler's locals and the last alert
  today,           \* new Date().toISOString().split('T')[0]
  items,           \* Overview / ItemDetail: the rows the last select returned
  stats,           \* Overview: the stats state
  isLoading,       \* Overview: the isLoading state
  costPerWear,     \* ItemDetail: costPerWear of the item shown
  suggestionsCache,\* suggestions.ts: the cached object, NoCache for null
  lastCacheTime,   \* suggestions.ts: lastCacheTime
  now,             \* Date.now(), in minutes
  objSeq,          \* suggestion objects created so far (object identity)
  call,            \* caller -> its getSuggestions call in flight
  returned,        \* the last value a getSuggestions call resolved to
  cleared,         \* history: "yes" from clearSuggestionsCache to the next
                   \* getSuggestions call, then that caller while it waits
  upPc,            \* uploadMultipleImages: "idle", in its "loop", or "done"
  uris,            \* uploadMultipleImages: the uris argument
  started,         \* positions of uris in the order uploadImage was called
  active,          \* positions of uris whose uploadImage has not resolved
  results,         \* uploadMultipleImages: the results array
  trackerItems,    \* QuickWearTracker: the items state, id -> local copy
  addingWearFor,   \* QuickWearTracker: the addingWearFor state
  wearCalls,       \* QuickWearTracker: the handleAddWear calls that await
  wearAdded,       \* QuickWearTracker: onWearAdded callbacks made so far
  taps,            \* handleAddWear calls that passed their guard so far
  selectedItem,    \* ItemDetail: the item prop (wardrobe's selectedItem)
  detailLoading,   \* ItemDetail: the isLoading state
  detailCall,      \* ItemDetail: the handleAddWear call that awaits
  images,          \* ClothingImagePicker: the images prop
  picking,         \* ClothingImagePicker: the camera or library call open
  save             \* AddItem / ItemDetail: the save under way

dbVars == <<clothing_items, wear_history, itemSeq>>
clientVars == <<session, pc, ctx, today>>
statVars == <<items, stats, isLoading, costPerWear>>
suggVars == <<suggestionsCache, lastCacheTime, now, objSeq, call, returned, cleared>>
uploadVars == <<upPc, uris, started, active, results>>
trackerVars == <<trackerItems, addingWearFor, wearCalls, wearAdded, taps,
                 selectedItem, detailLoading, detailCall>>
formVars == <<images, picking, save>>
uiVars == <<trackerVars, formVars>>
vars == <<clothing_items, wear_history, itemSeq, session, pc, ctx, today,
          items, stats, isLoading, costPerWear,
          suggestionsCache, lastCacheTime, now, objSeq, call, returned, cleared,
          upPc, uris, started, active, results,
          trackerItems, addingWearFor, wearCalls, wearAdded, taps,
          selectedItem, detailLoading, detailCall, images, picking, save>>

\* ------------------------------------------------------------- pure helpers
Max(a, b) == IF a >= b THEN a ELSE b

RECURSIVE SetMax(_)
\* SQL MAX(): NULL over no rows.
SetMax(S) ==
  IF S = {} THEN NULL
  ELSE LET x == CHOOSE y \in S : TRUE
       IN  Max(x, SetMax(S \ {x}))

Digits == <<"0", "1", "2", "3", "4", "5", "6", "7", "8", "9">>
IsDigit(ch) == \E d \in 1..10 : Digits[d] = ch
DigitVal(ch) == (CHOOSE d \in 1..10 : Digits[d] = ch) - 1

RECURSIVE SkipSpaces(_)
SkipSpaces(s) ==
  IF Len(s) > 0 /\ Head(s) = " " THEN SkipSpaces(Tail(s)) ELSE s

RECURSIVE DigitPrefixValue(_, _)
\* The value of the longest prefix of digits of s, read after acc; NULL when
\* nothing has been read.
DigitPrefixValue(s, acc) ==
  IF Len(s) > 0 /\ IsDigit(Head(s))
  THEN DigitPrefixValue(Tail(s), (IF acc = NULL THEN 0 ELSE acc) * 10 + DigitVal(Head(s)))
  ELSE acc

\* JS parseInt(text): leading blanks, an optional sign, then digits; NaN when
\* no digit follows. A number is [nan |-> FALSE, val |-> n].
parseInt(text) ==
  LET s      == SkipSpaces(text)
      signed == Len(s) > 0 /\ Head(s) \in {"-", "+"}
      sign   == IF signed /\ Head(s) = "-" THEN -1 ELSE 1
      v      == DigitPrefixValue(IF signed THEN Tail(s) ELSE s, NULL)
  IN  IF v = NULL THEN [nan |-> TRUE, val |-> 0]
      ELSE [nan |-> FALSE, val |-> sign * v]

\* JS  x || 0  on a number: NaN and 0 are falsy.
OrZero(x) == IF x.nan \/ x.val = 0 THEN 0 ELSE x.val

\* What can be typed in the 'Times Already Worn' field.
TimesWornTexts ==
  {<<>>, <<" ", "1", "x">>}
    \cup {<<Digits[n + 1]>> : n \in 0..MaxSeed}
    \cup {<<"-", Digits[n + 1]>> : n \in 1..MaxSeed}

\* ------------------------------------------------------------------ backend
\* RLS policies: auth.uid() = user_id, on both tables, for every command.
Policy(uid, row) == uid = row.user_id

\* REFERENCES clothing_items(id): checked without row security.
ForeignKeyOk(rows, row) == \E r \in rows : r.id = row.clothing_item_id

\* The rows of a bag of wear_history rows that reference item id.
RowsOf(wears, id) == {w \in BagToSet(wears) : w.clothing_item_id = id}

\* StatsOnInsert with the WHERE id = NEW.clothing_item_id left out.
StatsOnInsert_NoWhere(rows, new, uid) ==
  { IF Policy(uid, r)
    THEN [r EXCEPT !.times_worn = @ + 1,
                   !.last_worn_date = IF new.date_worn # NULL THEN new.date_worn ELSE @]
    ELSE r : r \in rows }

\* The trigger's INSERT branch. The function is SECURITY INVOKER, so its UPDATE
\* of clothing_items is filtered by the caller's UPDATE policy.
StatsOnInsert(rows, new, uid) ==
  { IF r.id = new.clothing_item_id /\ Policy(uid, r)
    THEN [r EXCEPT !.times_worn = @ + 1,
                   !.last_worn_date = IF new.date_worn # NULL THEN new.date_worn ELSE @]
    ELSE r : r \in rows }

\* The trigger's DELETE branch, run AFTER DELETE: wears no longer holds OLD, and
\* the sub-select sees the rows the caller's SELECT policy lets through.
StatsOnDelete(rows, wears, old, uid) ==
  { IF r.id = old.clothing_item_id /\ Policy(uid, r)
    THEN [r EXCEPT !.times_worn = Max(@ - 1, 0),
                   !.last_worn_date =
                      SetMax({ w.date_worn : w \in
                          { x \in RowsOf(wears, old.clothing_item_id) :
                              Policy(uid, x) /\ x.date_worn # NULL } })]
    ELSE r : r \in rows }

\* update_clothing_item_stats(), FOR EACH ROW AFTER INSERT OR DELETE.
update_clothing_item_stats(TG_OP, rows, wears, row, uid) ==
  IF TG_OP = "INSERT" THEN StatsOnInsert(rows, row, uid)
  ELSE IF TG_OP = "DELETE" THEN StatsOnDelete(rows, wears, row, uid)
  ELSE rows

\* StoreWearRow as an upsert on (user_id, clothing_item_id, date_worn).
StoreWearRow_Upsert(wears, new) ==
  IF BagIn(new, wears) THEN wears ELSE wears (+) SetToBag({new})

\* The rows of wear_history after one more row is stored.
StoreWearRow(wears, new) == wears (+) SetToBag({new})

\* INSERT INTO wear_history of one row by uid, both tables as a record; the
\* row is stored and the trigger runs in the same statement.
InsertWearRow(db, new, uid) ==
  [clothing_items |-> update_clothing_item_stats("INSERT", db.clothing_items,
                         StoreWearRow(db.wear_history, new), new, uid),
   wear_history   |-> StoreWearRow(db.wear_history, new)]

\* The insert is refused when the WITH CHECK policy or the foreign key fails.
InsertWearAllowed(db, new, uid) ==
  Policy(uid, new) /\ ForeignKeyOk(db.clothing_items, new)

WearRow(uid, item, d) ==
  [user_id |-> uid, clothing_item_id |-> item, date_worn |-> d]

RECURSIVE InsertWearRows(_, _, _, _)
\* A multi-row insert of n rows with date_worn NULL; the trigger runs per row.
InsertWearRows(db, n, item, uid) ==
  IF n <= 0 THEN db
  ELSE InsertWearRows(InsertWearRow(db, WearRow(uid, item, NULL), uid), n - 1, item, uid)

\* DELETE FROM wear_history of row old by uid: the DELETE policy hides the rows
\* of other users (nothing is deleted, no error), then the trigger runs.
DeleteWearRow(db, old, uid) ==
  IF Policy(uid, old)
  THEN [clothing_items |-> update_clothing_item_stats("DELETE", db.clothing_items,
                              db.wear_history (-) SetToBag({old}), old, uid),
        wear_history   |-> db.wear_history (-) SetToBag({old})]
  ELSE db

DB == [clothing_items |-> clothing_items, wear_history |-> wear_history]

\* SELECT on clothing_items by uid.
VisibleItems(uid) == {r \in clothing_items : Policy(uid, r)}

\* The locals of the handler a client is running; res is the response of its
\* request, or the alert that ended it ("added": 'Item added successfully!',
\* "failed": 'Failed to add item. Please try again.').
Idle == [op |-> "none", item |-> NULL, n |-> 0, date |-> NULL, seen |-> 0, res |-> "none"]

\* String.prototype.trim on a text of characters.
RECURSIVE TrimEnd(_)
TrimEnd(s) ==
  IF Len(s) > 0 /\ s[Len(s)] = " " THEN TrimEnd(SubSeq(s, 1, Len(s) - 1)) ELSE s
Trim(s) == TrimEnd(SkipSpaces(s))

Names == {<<" ">>, <<"a">>}
CategoryInputs == {"", "tops"}

\* --------------------------------------------------------------- statistics
MaxList == 2
MaxPrice == 2

\* The categories, prices and wear counts of the rows a select may return.
StatCategories == {"tops", "shoes"}
StatItems ==
  [times_worn : 0..MaxSeed, purchase_price : {NULL} \cup 0..MaxPrice,
   category : StatCategories]
StatLists == UNION {[1..n -> StatItems] : n \in 0..MaxList}

\* JS  x || 0  on a nullable number: null and 0 are falsy.
NumOrZero(x) == IF x = NULL \/ x = 0 THEN 0 ELSE x

RECURSIVE TotalTimesWorn(_)
\* items.reduce((sum, item) => sum + (item.times_worn || 0), 0)
TotalTimesWorn(list) ==
  IF list = <<>> THEN 0
  ELSE TotalTimesWorn(SubSeq(list, 1, Len(list) - 1)) + NumOrZero(list[Len(list)].times_worn)

\* TotalValue as a reduce without its initial value 0: the callback is not
\* run for the first row.
RECURSIVE TotalValue_NoInitialValue(_)
TotalValue_NoInitialValue(list) ==
  IF Len(list) <= 1 THEN 0
  ELSE TotalValue_NoInitialValue(SubSeq(list, 1, Len(list) - 1))
         + NumOrZero(list[Len(list)].purchase_price)

RECURSIVE TotalValue(_)
\* items.reduce((sum, item) => sum + (item.purchase_price || 0), 0)
TotalValue(list) ==
  IF list = <<>> THEN 0
  ELSE TotalValue(SubSeq(list, 1, Len(list) - 1)) + NumOrZero(list[Len(list)].purchase_price)

\* CountCategory that overwrites the count instead of adding to it.
CountCategory_NoAccumulate(counts, category) ==
  [k \in DOMAIN counts \cup {category} |-> IF k = category THEN 1 ELSE counts[k]]

\* categoryCounts[category] = (categoryCounts[category] || 0) + 1
CountCategory(counts, category) ==
  [k \in DOMAIN counts \cup {category} |->
     IF k = category
     THEN (IF k \in DOMAIN counts THEN counts[k] ELSE 0) + 1
     ELSE counts[k]]

RECURSIVE CategoryCounts(_)
\* items.forEach(...) over an object that starts empty
CategoryCounts(list) ==
  IF list = <<>> THEN [k \in {} |-> 0]
  ELSE CountCategory(CategoryCounts(SubSeq(list, 1, Len(list) - 1)), list[Len(list)].category)

\* MostWornItem with >= in place of >: the last of the most worn rows is kept.
RECURSIVE MostWornItem_LastOfTies(_)
MostWornItem_LastOfTies(list) ==
  IF list = <<>> THEN 0
  ELSE LET max == MostWornItem_LastOfTies(SubSeq(list, 1, Len(list) - 1))
           item == list[Len(list)]
       IN  IF max = 0 \/ NumOrZero(item.times_worn) >= NumOrZero(list[max].times_worn)
           THEN Len(list)
           ELSE max

RECURSIVE MostWornItem(_)
\* items.reduce((max, item) => ..., null): the index of the item kept, 0 for null
MostWornItem(list) ==
  IF list = <<>> THEN 0
  ELSE LET max == MostWornItem(SubSeq(list, 1, Len(list) - 1))
           item == list[Len(list)]
       IN  IF max = 0 \/ NumOrZero(item.times_worn) > NumOrZero(list[max].times_worn)
           THEN Len(list)
           ELSE max

\* The statistics fetchStats computes from the rows (recentlyAdded left out).
computeOverviewStats(list) ==
  [totalItems     |-> Len(list),
   totalTimesWorn |-> TotalTimesWorn(list),
   totalValue     |-> TotalValue(list),
   categoryCounts |-> CategoryCounts(list),
   mostWornItem   |-> MostWornItem(list)]

\* A cost per wear is a fraction num/den, or absent (null).
Absent == [absent |-> TRUE, num |-> 0, den |-> 1]

\* item.purchase_price && item.times_worn > 0 ? purchase_price / times_worn : null
computeCostPerWear(item) ==
  IF item.purchase_price # NULL /\ item.purchase_price # 0 /\ item.times_worn > 0
  THEN [absent |-> FALSE, num |-> item.purchase_price, den |-> item.times_worn]
  ELSE Absent

\* useState of Overview.
NoStats ==
  [totalItems |-> 0, totalTimesWorn |-> 0, totalValue |-> 0,
   categoryCounts |-> [k \in {} |-> 0], mostWornItem |-> 0]

StatInit ==
  /\ items = <<>>
  /\ stats = NoStats
  /\ isLoading = TRUE
  /\ costPerWear = [item |-> 0, value |-> Absent]

\* -------------------------------------------------------------- suggestions
MaxTime == 6
MaxObjects == 2

\* const CACHE_DURATION = 5 * 60 * 1000, with the clock counted in minutes.
CACHE_DURATION == 5

\* The instants, in minutes, at which something is called: around a multiple
\* of CACHE_DURATION.
Instants == {t \in 1..MaxTime : t % CACHE_DURATION \in {0, 1}}

\* The component whose getSuggestions call (made when it mounts) is followed.
Callers == {"AddItem"}

\* The device whose process holds the module-level cache.
Device == "c1"

\* UTF-16 code units of the characters used.
CharCode(ch) == CASE ch = " " -> 32 [] ch = "Z" -> 90 [] ch = "a" -> 97

RECURSIVE StrLess(_, _)
\* The default comparison of Array.prototype.sort: s before t by code units.
StrLess(s, t) ==
  IF t = <<>> THEN FALSE
  ELSE IF s = <<>> THEN TRUE
  ELSE IF CharCode(Head(s)) # CharCode(Head(t))
       THEN CharCode(Head(s)) < CharCode(Head(t))
       ELSE StrLess(Tail(s), Tail(t))

\* Array.prototype.sort() with no comparator.
JsSort(list) == SortSeq(list, StrLess)

RECURSIVE SetToList(_)
\* Array.from(new Set(...)): the values once each.
SetToList(S) ==
  IF S = {} THEN <<>>
  ELSE LET x == CHOOSE y \in S : TRUE
       IN  <<x>> \o SetToList(S \ {x})

\* Array.prototype.includes
Includes(list, v) == \E i \in 1..Len(list) : list[i] = v

\* A column value as the code tests it: null and '' are both falsy and are
\* both written <<>>.
Truthy(text) == text # <<>>

\* UniqueSorted without the second map: the values are kept untrimmed.
UniqueSorted_NoTrim(values) ==
  JsSort(SetToList({w \in values : Truthy(w) /\ Truthy(Trim(w))}))

\* map(...).filter(v => Boolean(v && v.trim())).map(v => v.trim()), made
\* unique by new Set and sorted.
UniqueSorted(values) ==
  JsSort(SetToList({Trim(v) : v \in {w \in values : Truthy(w) /\ Truthy(Trim(w))}}))

\* A SuggestionsData object; id tells one object from another.
Suggestions(id, brands, subcategories) ==
  [id |-> id, brands |-> brands, subcategories |-> subcategories]

\* suggestionsCache = null
NoCache == Suggestions(0, <<>>, <<>>)

\* The { brands: [], subcategories: [] } of the error paths: an object that
\* is referenced by its caller only.
ErrorResult == Suggestions(NULL, <<>>, <<>>)

\* select('brand, subcategory').eq('user_id', userId) under row-level security,
\* sent with the session the call was made in.
QueryItems(userId) ==
  {r \in clothing_items : r.user_id = userId /\ Policy(userId, r)}

\* The locals of a getSuggestions call, and what a call resolved to.
NoCall == [pc |-> "idle", userId |-> "", forceRefresh |-> FALSE, now |-> 0,
           found |-> NoCache]
NoReturn == [how |-> "none", userId |-> "", forceRefresh |-> FALSE, value |-> NoCache]

\* The brand and subcategory columns of the rows, and the texts typed in.
BrandTexts == {<<>>, <<"a">>, <<" ", "a">>, <<"Z">>}
SubcategoryTexts == {<<>>, <<"a", " ">>}
AddValues == {<<" ">>, <<"Z", " ">>}
SuggestionTypes == {"brand", "subcategory"}

\* The tables the suggestions are computed from: the first row is u1's.
SuggTables ==
  { {[id |-> 1, user_id |-> "u1", times_worn |-> 0, last_worn_date |-> NULL,
      brand |-> b1, subcategory |-> s1, image_urls |-> <<>>]} \cup
    {[id |-> i, user_id |-> u, times_worn |-> 0, last_worn_date |-> NULL,
      brand |-> b2, subcategory |-> s1, image_urls |-> <<>>] : i \in 2..MaxItems}
    : b1 \in {<<" ", "a">>}, b2 \in BrandTexts,
      s1 \in SubcategoryTexts, u \in Users } \cup {{}}

SuggInit ==
  /\ suggestionsCache = NoCache
  /\ lastCacheTime = 0
  /\ now = 1
  /\ objSeq = 0
  /\ call = [k \in Callers |-> NoCall]
  /\ returned = NoReturn
  /\ cleared = "no"

\* The local image uris picked, and the lists of them passed in.
MaxImages == 3
Uris == {"file:///a.jpg", "file:///b"}
UriLists == UNION {[1..n -> Uris] : n \in 0..MaxImages}

\* uri.split('.').pop() || 'jpg'
FileExtension(uri) == IF uri = "file:///a.jpg" THEN "jpg" ELSE "file:///b"

UploadInit ==
  /\ upPc = "idle"
  /\ uris = <<>>
  /\ started = <<>>
  /\ active = {}
  /\ results = <<>>

\* An image reference of a form: a local file uri that the picker returned
\* (url.startsWith('file://')), or the public url of an uploaded file.
LocalImage(uri) == [local |-> TRUE, uri |-> uri, url |-> <<>>]
StoredImage(url) == [local |-> FALSE, uri |-> "", url |-> url]

NoItem == [id |-> NULL, times_worn |-> 0, last_worn_date |-> NULL]
NoDetailCall == [pc |-> "idle", item |-> NoItem, res |-> "none"]
NoPick == [op |-> "none", images |-> <<>>, index |-> NULL]
NoSave == [pc |-> "idle", flow |-> "none", item |-> NULL, images |-> <<>>,
           imageUrls |-> <<>>, choice |-> "none", res |-> "none"]

\* The screens before they are opened.
UiInit ==
  /\ trackerItems = <<>>
  /\ addingWearFor = NULL
  /\ wearCalls = <<>>
  /\ wearAdded = 0
  /\ taps = 0
  /\ selectedItem = NoItem
  /\ detailLoading = FALSE
  /\ detailCall = NoDetailCall
  /\ images = <<>>
  /\ picking = NoPick
  /\ save = NoSave

\* Two users, one device each.
Init ==
  /\ clothing_items = {}
  /\ wear_history = EmptyBag
  /\ itemSeq = 0
  /\ session = [c \in Clients |-> IF c = "c1" THEN "u1" ELSE "u2"]
  /\ pc = [c \in Clients |-> "idle"]
  /\ ctx = [c \in Clients |-> Idle]
  /\ today = 1
  /\ StatInit
  /\ SuggInit
  /\ UploadInit
  /\ UiInit

\* ------------------------------------------------------------ AddItem screen
\* handleSave with no image picked, up to the first await of proceedWithSave:
\* the two validations, then the insert into clothing_items; its error ends
\* the save with the failure alert, and without a seed to insert the save ends
\* with the success alert.
AddItemInsert(c, name, category, text) ==
  /\ pc[c] = "idle"
  /\ IF Trim(name) = <<>> \/ category = ""
     THEN UNCHANGED vars
     ELSE LET uid == session[c]
              tw  == OrZero(parseInt(text))
              id  == itemSeq + 1
          IN  /\ itemSeq < MaxItems
              /\ \E ok \in BOOLEAN :
                   IF ok
                   THEN /\ clothing_items' = clothing_items \cup
                             {[id |-> id, user_id |-> uid, times_worn |-> tw,
                               last_worn_date |-> NULL,
                               brand |-> <<>>, subcategory |-> <<>>,
                               image_urls |-> <<>>]}
                        /\ itemSeq' = id
                        /\ IF tw > 0
                           THEN /\ pc' = [pc EXCEPT ![c] = "seed"]
                                /\ ctx' = [ctx EXCEPT ![c] =
                                            [Idle EXCEPT !.op = "addItem", !.item = id, !.n = tw]]
                           ELSE /\ ctx' = [ctx EXCEPT ![c] = [Idle EXCEPT !.res = "added"]]
                                /\ UNCHANGED pc
                        /\ UNCHANGED <<wear_history, session, today, statVars, suggVars, uploadVars, uiVars>>
                   ELSE /\ ctx' = [ctx EXCEPT ![c] = [Idle EXCEPT !.res = "failed"]]
                        /\ UNCHANGED <<clothing_items, wear_history, itemSeq, session,
                                       pc, today, statVars, suggVars, uploadVars, uiVars>>

\* proceedWithSave after the item insert: one insert of timesWorn rows with
\* date_worn null; its error is logged and the save still reports success.
AddItemSeed(c) ==
  /\ pc[c] = "seed"
  /\ LET uid == session[c]
         id  == ctx[c].item
         n   == ctx[c].n
     IN  \E ok \in BOOLEAN :
           /\ IF ok /\ InsertWearAllowed(DB, WearRow(uid, id, NULL), uid)
              THEN LET db == InsertWearRows(DB, n, id, uid)
                   IN  /\ clothing_items' = db.clothing_items
                       /\ wear_history' = db.wear_history
              ELSE UNCHANGED <<clothing_items, wear_history>>
           /\ pc' = [pc EXCEPT ![c] = "idle"]
           /\ ctx' = [ctx EXCEPT ![c] = [Idle EXCEPT !.res = "added"]]
           /\ UNCHANGED <<itemSeq, session, today, statVars, suggVars, uploadVars, uiVars>>

\* ------------------------------------------------------- wear_history requests
\* recordWear(itemId, dateWorn) as the backend sees it: one insert into
\* wear_history by the signed-in user, for any item id and any date.
RecordWear(c, id, d) ==
  /\ pc[c] = "idle"
  /\ BagCardinality(wear_history) < MaxWear
  /\ LET uid == session[c]
         row == WearRow(uid, id, d)
     IN  IF InsertWearAllowed(DB, row, uid)
         THEN LET db == InsertWearRow(DB, row, uid)
              IN  /\ clothing_items' = db.clothing_items
                  /\ wear_history' = db.wear_history
         ELSE UNCHANGED <<clothing_items, wear_history>>
  /\ UNCHANGED <<itemSeq, session, pc, ctx, today, statVars, suggVars, uploadVars, uiVars>>

\* A delete of one wear_history row the caller can see.
DeleteWear(c, w) ==
  /\ pc[c] = "idle"
  /\ Policy(session[c], w)
  /\ LET db == DeleteWearRow(DB, w, session[c])
     IN  /\ clothing_items' = db.clothing_items
         /\ wear_history' = db.wear_history
  /\ UNCHANGED <<itemSeq, session, pc, ctx, today, statVars, suggVars, uploadVars, uiVars>>

Next ==
  \/ \E c \in Clients, name \in Names, category \in CategoryInputs, text \in TimesWornTexts :
        AddItemInsert(c, name, category, text)
  \/ \E c \in Clients : AddItemSeed(c)
  \/ \E c \in Clients, id \in 1..MaxItems, d \in Dates \cup {NULL} : RecordWear(c, id, d)
  \/ \E c \in Clients, w \in BagToSet(wear_history) : DeleteWear(c, w)

Spec == Init /\ [][Next]_vars

\* ------------------------------------------------------------- wear logging
\* handleAddWear (QuickWearTracker "+1", ItemDetail "+ Wear") up to its await:
\* the item is one of the rows the client's own select returned, the date is
\* today's, and the request is sent.
HandleAddWear(c, r) ==
  /\ pc[c] = "idle"
  /\ r \in VisibleItems(session[c])
  /\ BagCardinality(wear_history) < MaxWear
  /\ pc' = [pc EXCEPT ![c] = "wear"]
  /\ ctx' = [ctx EXCEPT ![c] = [Idle EXCEPT !.op = "addWear", !.item = r.id,
                                            !.date = today, !.seen = r.times_worn]]
  /\ UNCHANGED <<clothing_items, wear_history, itemSeq, session, today, statVars, suggVars, uploadVars, uiVars>>

\* WearInsert with the counter written by the client from the value it read
\* (times_worn: item.times_worn + 1) instead of by the trigger.
WearInsert_ReadModifyWrite(c) ==
  /\ pc[c] = "wear"
  /\ LET uid == session[c]
         row == WearRow(uid, ctx[c].item, ctx[c].date)
     IN  \E sent \in BOOLEAN :
           IF sent /\ InsertWearAllowed(DB, row, uid)
           THEN /\ clothing_items' =
                     { IF r.id = ctx[c].item
                       THEN [r EXCEPT !.times_worn = ctx[c].seen + 1,
                                      !.last_worn_date = ctx[c].date]
                       ELSE r : r \in clothing_items }
                /\ wear_history' = StoreWearRow(wear_history, row)
                /\ ctx' = [ctx EXCEPT ![c].res = "ok"]
           ELSE /\ ctx' = [ctx EXCEPT ![c].res = IF sent THEN "refused" ELSE "network"]
                /\ UNCHANGED <<clothing_items, wear_history>>
  /\ pc' = [pc EXCEPT ![c] = "wear_done"]
  /\ UNCHANGED <<itemSeq, session, today, statVars, suggVars, uploadVars, uiVars>>

\* The backend runs the insert of a pending handleAddWear, or the request fails
\* on the way; the response travels back: "ok", the backend's refusal, or the
\* transport's error.
WearInsert(c) ==
  /\ pc[c] = "wear"
  /\ LET uid == session[c]
         row == WearRow(uid, ctx[c].item, ctx[c].date)
     IN  \E sent \in BOOLEAN :
           IF sent /\ InsertWearAllowed(DB, row, uid)
           THEN LET db == InsertWearRow(DB, row, uid)
                IN  /\ clothing_items' = db.clothing_items
                    /\ wear_history' = db.wear_history
                    /\ ctx' = [ctx EXCEPT ![c].res = "ok"]
           ELSE /\ ctx' = [ctx EXCEPT ![c].res = IF sent THEN "refused" ELSE "network"]
                /\ UNCHANGED <<clothing_items, wear_history>>
  /\ pc' = [pc EXCEPT ![c] = "wear_done"]
  /\ UNCHANGED <<itemSeq, session, today, statVars, suggVars, uploadVars, uiVars>>

\* handleAddWear after its await: the alert or the local update, then finally.
WearAck(c) ==
  /\ pc[c] = "wear_done"
  /\ pc' = [pc EXCEPT ![c] = "idle"]
  /\ ctx' = [ctx EXCEPT ![c] = Idle]
  /\ UNCHANGED <<clothing_items, wear_history, itemSeq, session, today, statVars, suggVars, uploadVars, uiVars>>

\* Midnight (UTC) passes.
Tick ==
  /\ today < MaxDate
  /\ today' = today + 1
  /\ UNCHANGED <<clothing_items, wear_history, itemSeq, session, pc, ctx, statVars, suggVars, uploadVars, uiVars>>

\* One user signed in on two devices, with MaxItems items already added (each
\* with 'Times Already Worn' left at "0") and not worn yet.
InitConc ==
  /\ clothing_items = {[id |-> i, user_id |-> "u1", times_worn |-> 0,
                         last_worn_date |-> NULL,
                         brand |-> <<>>, subcategory |-> <<>>,
                               image_urls |-> <<>>] : i \in 1..MaxItems}
  /\ wear_history = EmptyBag
  /\ itemSeq = MaxItems
  /\ session = [c \in Clients |-> "u1"]
  /\ pc = [c \in Clients |-> "idle"]
  /\ ctx = [c \in Clients |-> Idle]
  /\ today = 1
  /\ StatInit
  /\ SuggInit
  /\ UploadInit
  /\ UiInit

NextConc ==
  \/ \E c \in Clients, r \in clothing_items : HandleAddWear(c, r)
  \/ \E c \in Clients : WearInsert(c)
  \/ \E c \in Clients : WearAck(c)
  \/ Tick

SpecConc == InitConc /\ [][NextConc]_vars

\* ---------------------------------------------------- Overview and ItemDetail
\* fetchStats once its select has returned the rows: the statistics are
\* computed and stored, and isLoading is cleared.
fetchStats ==
  /\ stats' = computeOverviewStats(items)
  /\ isLoading' = FALSE
  /\ UNCHANGED <<dbVars, clientVars, items, costPerWear, suggVars, uploadVars, uiVars>>

\* ItemDetail rendered for the i-th row.
ItemDetail(i) ==
  /\ i \in 1..Len(items)
  /\ costPerWear' = [item |-> i, value |-> computeCostPerWear(items[i])]
  /\ UNCHANGED <<dbVars, clientVars, items, stats, isLoading, suggVars, uploadVars, uiVars>>

\* Any list of rows a select may have returned.
InitStats ==
  /\ clothing_items = {}
  /\ wear_history = EmptyBag
  /\ itemSeq = 0
  /\ session = [c \in Clients |-> "u1"]
  /\ pc = [c \in Clients |-> "idle"]
  /\ ctx = [c \in Clients |-> Idle]
  /\ today = 1
  /\ items \in StatLists
  /\ stats = NoStats
  /\ isLoading = TRUE
  /\ costPerWear = [item |-> 0, value |-> Absent]
  /\ SuggInit
  /\ UploadInit
  /\ UiInit

NextStats ==
  \/ fetchStats
  \/ \E i \in 1..MaxList : ItemDetail(i)

SpecStats == InitStats /\ [][NextStats]_vars

\* ------------------------------------------------------ suggestions module
\* CacheFresh with <= in place of <.
CacheFresh_UpToDuration(forceRefresh) ==
  /\ ~forceRefresh
  /\ suggestionsCache # NoCache
  /\ (now - lastCacheTime) <= CACHE_DURATION

\* !forceRefresh && suggestionsCache && (now - lastCacheTime) < CACHE_DURATION
CacheFresh(forceRefresh) ==
  /\ ~forceRefresh
  /\ suggestionsCache # NoCache
  /\ (now - lastCacheTime) < CACHE_DURATION

\* getSuggestions(user.id, forceRefresh) up to its await: the cached object is
\* returned at once, or the select is sent.
getSuggestions(k, forceRefresh) ==
  /\ call[k].pc = "idle"
  /\ IF CacheFresh(forceRefresh)
     THEN /\ returned' = [how |-> "cache", userId |-> session[Device],
                           forceRefresh |-> forceRefresh,
                           value |-> suggestionsCache]
          /\ UNCHANGED call
     ELSE /\ call' = [call EXCEPT ![k] =
                        [pc |-> "query", userId |-> session[Device],
                         forceRefresh |-> forceRefresh, now |-> now,
                         found |-> suggestionsCache]]
          /\ UNCHANGED returned
  /\ cleared' = IF cleared = "yes"
                THEN (IF CacheFresh(forceRefresh) THEN "no" ELSE k)
                ELSE cleared
  /\ UNCHANGED <<dbVars, clientVars, statVars, uploadVars, uiVars,
                 suggestionsCache, lastCacheTime, now, objSeq>>

\* The select answered with rows: the lists are built, cached and returned.
QuerySucceeded(k) ==
  LET rows  == QueryItems(call[k].userId)
      fresh == Suggestions(objSeq + 1,
                           UniqueSorted({r.brand : r \in rows}),
                           UniqueSorted({r.subcategory : r \in rows}))
  IN  /\ objSeq < MaxObjects
      /\ objSeq' = objSeq + 1
      /\ suggestionsCache' = fresh
      /\ lastCacheTime' = call[k].now
      /\ returned' = [how |-> "query", userId |-> call[k].userId,
                       forceRefresh |-> call[k].forceRefresh, value |-> fresh]

\* QueryFailed that caches the empty lists it returns, as the branch for a
\* user without items does.
QueryFailed_CachesEmpty(k) ==
  LET empty == Suggestions(objSeq + 1, <<>>, <<>>)
  IN  /\ objSeq < MaxObjects
      /\ objSeq' = objSeq + 1
      /\ suggestionsCache' = empty
      /\ lastCacheTime' = call[k].now
      /\ returned' = [how |-> "error", userId |-> call[k].userId,
                       forceRefresh |-> call[k].forceRefresh, value |-> empty]

\* The select answered with an error, or threw: empty lists are returned.
QueryFailed(k) ==
  /\ returned' = [how |-> "error", userId |-> call[k].userId,
                   forceRefresh |-> call[k].forceRefresh, value |-> ErrorResult]
  /\ UNCHANGED <<suggestionsCache, lastCacheTime, objSeq>>

\* getSuggestions after its await.
getSuggestionsResolve(k) ==
  /\ call[k].pc = "query"
  /\ \/ QuerySucceeded(k)
     \/ QueryFailed(k)
  /\ call' = [call EXCEPT ![k] = NoCall]
  /\ cleared' = IF cleared = k THEN "no" ELSE cleared
  /\ UNCHANGED <<dbVars, clientVars, statVars, uploadVars, uiVars, now>>

\* addToSuggestionsCache that pushes without sorting afterwards.
addToSuggestionsCache_NoSort(type, value) ==
  /\ IF suggestionsCache = NoCache \/ ~Truthy(Trim(value))
     THEN UNCHANGED suggestionsCache
     ELSE LET trimmedValue == Trim(value)
          IN  IF type = "brand" /\ ~Includes(suggestionsCache.brands, trimmedValue)
              THEN suggestionsCache' =
                     [suggestionsCache EXCEPT !.brands = Append(@, trimmedValue)]
              ELSE IF type = "subcategory"
                        /\ ~Includes(suggestionsCache.subcategories, trimmedValue)
              THEN suggestionsCache' =
                     [suggestionsCache EXCEPT !.subcategories = Append(@, trimmedValue)]
              ELSE UNCHANGED suggestionsCache
  /\ UNCHANGED <<dbVars, clientVars, statVars, uploadVars, uiVars,
                 lastCacheTime, now, objSeq, call, returned, cleared>>

\* addToSuggestionsCache that starts a cache when there is none.
addToSuggestionsCache_CreatesCache(type, value) ==
  /\ objSeq < MaxObjects
  /\ IF ~Truthy(Trim(value))
     THEN UNCHANGED <<suggestionsCache, objSeq>>
     ELSE LET trimmedValue == Trim(value)
              cache == IF suggestionsCache = NoCache
                       THEN Suggestions(objSeq + 1, <<>>, <<>>)
                       ELSE suggestionsCache
          IN  /\ objSeq' = IF suggestionsCache = NoCache THEN objSeq + 1 ELSE objSeq
              /\ IF type = "brand" /\ ~Includes(cache.brands, trimmedValue)
                 THEN suggestionsCache' =
                        [cache EXCEPT !.brands = JsSort(Append(@, trimmedValue))]
                 ELSE IF type = "subcategory"
                           /\ ~Includes(cache.subcategories, trimmedValue)
                 THEN suggestionsCache' =
                        [cache EXCEPT !.subcategories = JsSort(Append(@, trimmedValue))]
                 ELSE suggestionsCache' = cache
  /\ UNCHANGED <<dbVars, clientVars, statVars, uploadVars, uiVars,
                 lastCacheTime, now, call, returned, cleared>>

\* if (!suggestionsCache || !value.trim()) return; then push and sort for the
\* list of the type, unless the list includes the trimmed value.
addToSuggestionsCache(type, value) ==
  /\ IF suggestionsCache = NoCache \/ ~Truthy(Trim(value))
     THEN UNCHANGED suggestionsCache
     ELSE LET trimmedValue == Trim(value)
          IN  IF type = "brand" /\ ~Includes(suggestionsCache.brands, trimmedValue)
              THEN suggestionsCache' =
                     [suggestionsCache EXCEPT
                        !.brands = JsSort(Append(@, trimmedValue))]
              ELSE IF type = "subcategory"
                        /\ ~Includes(suggestionsCache.subcategories, trimmedValue)
              THEN suggestionsCache' =
                     [suggestionsCache EXCEPT
                        !.subcategories = JsSort(Append(@, trimmedValue))]
              ELSE UNCHANGED suggestionsCache
  /\ UNCHANGED <<dbVars, clientVars, statVars, uploadVars, uiVars,
                 lastCacheTime, now, objSeq, call, returned, cleared>>

clearSuggestionsCache ==
  /\ suggestionsCache' = NoCache
  /\ lastCacheTime' = 0
  /\ cleared' = "yes"
  /\ UNCHANGED <<dbVars, clientVars, statVars, uploadVars, uiVars,
                 now, objSeq, call, returned>>

\* SignIn that clears the suggestions of the user who signed out.
SignIn_ClearsCache(u) ==
  /\ session[Device] # u
  /\ session' = [session EXCEPT ![Device] = u]
  /\ suggestionsCache' = NoCache
  /\ lastCacheTime' = 0
  /\ UNCHANGED <<dbVars, pc, ctx, today, statVars, uploadVars, uiVars,
                 now, objSeq, call, returned, cleared>>

\* Sign out and sign in as u on the device.
SignIn(u) ==
  /\ session[Device] # u
  /\ session' = [session EXCEPT ![Device] = u]
  /\ UNCHANGED <<dbVars, pc, ctx, today, statVars, suggVars, uploadVars, uiVars>>

\* Time passes up to the next of the instants.
ClockTick ==
  /\ \E t \in Instants : t > now
  /\ now' = CHOOSE t \in Instants : t > now /\ \A t2 \in Instants : t2 > now => t <= t2
  /\ UNCHANGED <<dbVars, clientVars, statVars, uploadVars, uiVars,
                 suggestionsCache, lastCacheTime, objSeq, call, returned, cleared>>

\* The items of the two users are in the table; u1 is signed in.
InitSugg ==
  /\ clothing_items \in SuggTables
  /\ wear_history = EmptyBag
  /\ itemSeq = MaxItems
  /\ session = [c \in Clients |-> "u1"]
  /\ pc = [c \in Clients |-> "idle"]
  /\ ctx = [c \in Clients |-> Idle]
  /\ today = 1
  /\ StatInit
  /\ SuggInit
  /\ UploadInit
  /\ UiInit

NextSugg ==
  \/ \E k \in Callers, forceRefresh \in BOOLEAN : getSuggestions(k, forceRefresh)
  \/ \E k \in Callers : getSuggestionsResolve(k)
  \/ \E type \in SuggestionTypes, value \in AddValues : addToSuggestionsCache(type, value)
  \/ clearSuggestionsCache
  \/ \E u \in Users : SignIn(u)
  \/ ClockTick

SpecSugg == InitSugg /\ [][NextSugg]_vars

\* ------------------------------------------------------------ image upload
\* uploadMultipleImages(uris, userId) is called: results = [].
uploadMultipleImages(list) ==
  /\ upPc # "loop"
  /\ upPc' = "loop"
  /\ uris' = list
  /\ started' = <<>>
  /\ active' = {}
  /\ results' = <<>>
  /\ UNCHANGED <<dbVars, clientVars, statVars, suggVars, uiVars>>

\* MayStart for a loop that does not await: uploadImage is called for the next
\* uri while earlier uploads are under way.
MayStart_NoAwait(i) ==
  /\ upPc = "loop"
  /\ i = Len(started) + 1
  /\ i <= Len(uris)

\* for (const uri of uris) { const result = await uploadImage(uri, userId) ...:
\* the body runs for position i when the loop has pushed the results of all
\* positions before it.
MayStart(i) ==
  /\ upPc = "loop"
  /\ active = {}
  /\ i = Len(results) + 1
  /\ i <= Len(uris)

\* uploadImage(uris[i], userId) is called and runs up to its first await.
uploadImage(i) ==
  /\ MayStart(i)
  /\ started' = Append(started, i)
  /\ active' = active \cup {i}
  /\ UNCHANGED <<dbVars, clientVars, statVars, suggVars, uiVars, upPc, uris, results>>

\* What uploadImage resolves to for position i: the public url of the file
\* named after the time read at its start, or success false when reading or
\* uploading failed or threw.
ImageUploadResult(i, success) ==
  [success |-> success,
   url |-> IF success
           THEN <<session[Device], CHOOSE n \in 1..Len(started) : started[n] = i,
                  FileExtension(uris[i])>>
           ELSE <<>>,
   pos |-> i]

\* uploadImage for position i resolves and results.push(result) runs.
uploadImageResolve(i) ==
  /\ i \in active
  /\ \E success \in BOOLEAN :
       results' = Append(results, ImageUploadResult(i, success))
  /\ active' = active \ {i}
  /\ UNCHANGED <<dbVars, clientVars, statVars, suggVars, uiVars, upPc, uris, started>>

\* return results
uploadReturn ==
  /\ upPc = "loop"
  /\ ~ \E i \in 1..MaxImages : MayStart(i)
  /\ active = {}
  /\ upPc' = "done"
  /\ UNCHANGED <<dbVars, clientVars, statVars, suggVars, uiVars, uris, started, active, results>>

InitUpload ==
  /\ clothing_items = {}
  /\ wear_history = EmptyBag
  /\ itemSeq = 0
  /\ session \in [Clients -> Users]
  /\ pc = [c \in Clients |-> "idle"]
  /\ ctx = [c \in Clients |-> Idle]
  /\ today = 1
  /\ StatInit
  /\ SuggInit
  /\ UploadInit
  /\ UiInit

NextUpload ==
  \/ \E list \in UriLists : uploadMultipleImages(list)
  \/ \E i \in 1..MaxImages : uploadImage(i)
  \/ \E i \in 1..MaxImages : uploadImageResolve(i)
  \/ uploadReturn

SpecUpload == InitUpload /\ [][NextUpload]_vars

\* ------------------------------------ QuickWearTracker and ItemDetail: +1
MaxTaps == 3

\* The columns of a row that the screens keep of it.
LocalCopy(r) ==
  [id |-> r.id, times_worn |-> r.times_worn, last_worn_date |-> r.last_worn_date]

\* fetchItems: setItems(data) with the rows the user may select.
fetchItems ==
  [i \in {r.id : r \in VisibleItems(session[Device])} |->
     LocalCopy(CHOOSE r \in clothing_items : r.id = i)]

\* The list without its n-th entry.
RemoveAt(list, n) ==
  [j \in 1..(Len(list) - 1) |-> IF j < n THEN list[j] ELSE list[j + 1]]

\* TrackerHandleAddWear that changes the local copy before the insert is sent.
TrackerHandleAddWear_Optimistic(i) ==
  /\ i \in DOMAIN trackerItems
  /\ taps < MaxTaps
  /\ IF addingWearFor = i
     THEN UNCHANGED vars
     ELSE /\ addingWearFor' = i
          /\ trackerItems' = [trackerItems EXCEPT ![i].times_worn = @ + 1,
                                                  ![i].last_worn_date = today]
          /\ wearCalls' = Append(wearCalls,
                            [item |-> i, items |-> trackerItems,
                             date |-> today, res |-> "sent"])
          /\ taps' = taps + 1
          /\ UNCHANGED <<dbVars, clientVars, statVars, suggVars, uploadVars,
                         wearAdded, selectedItem, detailLoading,
                         detailCall, formVars>>

\* QuickWearTracker.handleAddWear for the item i of the list, up to its await:
\* the guard on addingWearFor (the +1 button of that item is disabled on the
\* same condition), setAddingWearFor, and the insert is sent. The call keeps
\* the items of the render it was made in.
TrackerHandleAddWear(i) ==
  /\ i \in DOMAIN trackerItems
  /\ taps < MaxTaps
  /\ IF addingWearFor = i
     THEN UNCHANGED vars
     ELSE /\ addingWearFor' = i
          /\ wearCalls' = Append(wearCalls,
                            [item |-> i, items |-> trackerItems,
                             date |-> today, res |-> "sent"])
          /\ taps' = taps + 1
          /\ UNCHANGED <<dbVars, clientVars, statVars, suggVars, uploadVars,
                         trackerItems, wearAdded, selectedItem, detailLoading,
                         detailCall, formVars>>

\* The insert of the n-th waiting call is run by the backend and answered
\* ("ok"), is refused ("error": the { error } of the response), or the request
\* throws ("thrown").
TrackerWearInsert(n) ==
  /\ n \in 1..Len(wearCalls)
  /\ wearCalls[n].res = "sent"
  /\ LET uid == session[Device]
         row == WearRow(uid, wearCalls[n].item, wearCalls[n].date)
     IN  \E res \in {"ok", "error", "thrown"} :
           /\ IF res = "ok"
              THEN /\ InsertWearAllowed(DB, row, uid)
                   /\ LET db == InsertWearRow(DB, row, uid)
                      IN  /\ clothing_items' = db.clothing_items
                          /\ wear_history' = db.wear_history
              ELSE UNCHANGED <<clothing_items, wear_history>>
           /\ wearCalls' = [wearCalls EXCEPT ![n].res = res]
  /\ UNCHANGED <<itemSeq, clientVars, statVars, suggVars, uploadVars,
                 trackerItems, addingWearFor, wearAdded, taps, selectedItem,
                 detailLoading, detailCall, formVars>>

\* items.map(...) of handleAddWear over the items the call kept.
WithWear(list, i, date) ==
  [j \in DOMAIN list |->
     IF j = i
     THEN [list[j] EXCEPT !.times_worn = @ + 1, !.last_worn_date = date]
     ELSE list[j]]

\* QuickWearTracker.handleAddWear after its await: the alert, or setItems and
\* onWearAdded; then finally setAddingWearFor(null).
TrackerAfterAwait(n) ==
  /\ n \in 1..Len(wearCalls)
  /\ wearCalls[n].res # "sent"
  /\ IF wearCalls[n].res = "ok"
     THEN /\ trackerItems' = WithWear(wearCalls[n].items, wearCalls[n].item, today)
          /\ wearAdded' = wearAdded + 1
     ELSE UNCHANGED <<trackerItems, wearAdded>>
  /\ addingWearFor' = NULL
  /\ wearCalls' = RemoveAt(wearCalls, n)
  /\ UNCHANGED <<dbVars, clientVars, statVars, suggVars, uploadVars,
                 taps, selectedItem, detailLoading, detailCall, formVars>>

\* ItemDetail.handleAddWear up to its await; the '+1 Wear' button is disabled
\* while isLoading. The call keeps the item prop of the render it was made in.
DetailHandleAddWear ==
  /\ selectedItem # NoItem
  /\ ~detailLoading
  /\ taps < MaxTaps
  /\ detailLoading' = TRUE
  /\ detailCall' = [pc |-> "sent", item |-> selectedItem, res |-> "none"]
  /\ taps' = taps + 1
  /\ UNCHANGED <<dbVars, clientVars, statVars, suggVars, uploadVars,
                 trackerItems, addingWearFor, wearCalls, wearAdded,
                 selectedItem, formVars>>

\* The insert of ItemDetail's waiting call is answered, refused or throws.
DetailWearInsert ==
  /\ detailCall.pc = "sent"
  /\ LET uid == session[Device]
         row == WearRow(uid, detailCall.item.id, today)
     IN  \E res \in {"ok", "error", "thrown"} :
           /\ IF res = "ok"
              THEN /\ InsertWearAllowed(DB, row, uid)
                   /\ LET db == InsertWearRow(DB, row, uid)
                      IN  /\ clothing_items' = db.clothing_items
                          /\ wear_history' = db.wear_history
              ELSE UNCHANGED <<clothing_items, wear_history>>
           /\ detailCall' = [detailCall EXCEPT !.pc = "answered", !.res = res]
  /\ UNCHANGED <<itemSeq, clientVars, statVars, suggVars, uploadVars,
                 trackerItems, addingWearFor, wearCalls, wearAdded, taps,
                 selectedItem, detailLoading, formVars>>

\* ItemDetail.handleAddWear after its await: the alert, or onItemUpdated (the
\* wardrobe screen's handleItemUpdated sets selectedItem); then finally
\* setIsLoading(false).
DetailAfterAwait ==
  /\ detailCall.pc = "answered"
  /\ IF detailCall.res = "ok"
     THEN selectedItem' = [detailCall.item EXCEPT !.times_worn = @ + 1,
                                                  !.last_worn_date = today]
     ELSE UNCHANGED selectedItem
  /\ detailLoading' = FALSE
  /\ detailCall' = NoDetailCall
  /\ UNCHANGED <<dbVars, clientVars, statVars, suggVars, uploadVars,
                 trackerItems, addingWearFor, wearCalls, wearAdded, taps,
                 formVars>>

\* One user on one device, MaxItems items not worn yet; the tracker has
\* fetched its items and the detail screen shows the first of them.
InitTracker ==
  /\ clothing_items = {[id |-> i, user_id |-> "u1", times_worn |-> 0,
                         last_worn_date |-> NULL,
                         brand |-> <<>>, subcategory |-> <<>>,
                         image_urls |-> <<>>] : i \in 1..MaxItems}
  /\ wear_history = EmptyBag
  /\ itemSeq = MaxItems
  /\ session = [c \in Clients |-> "u1"]
  /\ pc = [c \in Clients |-> "idle"]
  /\ ctx = [c \in Clients |-> Idle]
  /\ today = 1
  /\ StatInit
  /\ SuggInit
  /\ UploadInit
  /\ trackerItems = fetchItems
  /\ addingWearFor = NULL
  /\ wearCalls = <<>>
  /\ wearAdded = 0
  /\ taps = 0
  /\ selectedItem = LocalCopy(CHOOSE r \in clothing_items : r.id = 1)
  /\ detailLoading = FALSE
  /\ detailCall = NoDetailCall
  /\ images = <<>>
  /\ picking = NoPick
  /\ save = NoSave

NextTracker ==
  \/ \E i \in 1..MaxItems : TrackerHandleAddWear(i)
  \/ \E n \in 1..MaxTaps : TrackerWearInsert(n)
  \/ \E n \in 1..MaxTaps : TrackerAfterAwait(n)
  \/ DetailHandleAddWear
  \/ DetailWearInsert
  \/ DetailAfterAwait
  \/ Tick

SpecTracker == InitTracker /\ [][NextTracker]_vars

\* ----------------------------------------------------- ClothingImagePicker
maxImages == 3

\* What the camera or the library hands back: result.assets[..].uri.
AssetLists == UNION {[1..n -> Uris] : n \in 1..maxImages}

\* The lists of images a form can hold when the picker is opened.
ImageLists ==
  UNION {[1..n -> {LocalImage("file:///a.jpg"), StoredImage(<<"u1", 1, "jpg">>)}] :
           n \in 0..maxImages}

\* Array.prototype.slice(0, n)
Slice(list, n) == SubSeq(list, 1, IF Len(list) < n THEN Len(list) ELSE n)

\* images.length < maxImages: the add button is shown.
canAddMore == Len(images) < maxImages

\* showImagePicker: the add button is pressed and takePhoto or pickFromLibrary
\* is chosen; the call keeps the images prop of the render it was made in.
showImagePicker(op) ==
  /\ canAddMore
  /\ picking.op = "none"
  /\ picking' = [picking EXCEPT !.op = op, !.images = images]
  /\ UNCHANGED <<dbVars, clientVars, statVars, suggVars, uploadVars,
                 trackerVars, images, save>>

\* takePhoto after launchCameraAsync: canceled, or one photo is appended.
takePhoto ==
  /\ picking.op = "takePhoto"
  /\ \/ UNCHANGED images
     \/ \E uri \in Uris : images' = Append(picking.images, LocalImage(uri))
  /\ picking' = [NoPick EXCEPT !.index = picking.index]
  /\ UNCHANGED <<dbVars, clientVars, statVars, suggVars, uploadVars,
                 trackerVars, save>>

\* pickFromLibrary that appends all of the assets.
pickFromLibrary_NoSlice ==
  /\ picking.op = "pickFromLibrary"
  /\ \/ UNCHANGED images
     \/ \E assets \in AssetLists :
          images' = picking.images \o [n \in 1..Len(assets) |-> LocalImage(assets[n])]
  /\ picking' = [NoPick EXCEPT !.index = picking.index]
  /\ UNCHANGED <<dbVars, clientVars, statVars, suggVars, uploadVars,
                 trackerVars, save>>

\* pickFromLibrary after launchImageLibraryAsync: canceled, or the assets are
\* appended and the list is cut to maxImages.
pickFromLibrary ==
  /\ picking.op = "pickFromLibrary"
  /\ \/ UNCHANGED images
     \/ \E assets \in AssetLists :
          images' = Slice(picking.images \o
                            [n \in 1..Len(assets) |-> LocalImage(assets[n])],
                          maxImages)
  /\ picking' = [NoPick EXCEPT !.index = picking.index]
  /\ UNCHANGED <<dbVars, clientVars, statVars, suggVars, uploadVars,
                 trackerVars, save>>

\* images.filter((_, i) => i !== index), with a list indexed from 1.
FilterIndex(list, index) ==
  LET keep == {j \in 1..Len(list) : j - 1 # index}
      Nth[k \in 0..Len(list)] ==
        IF k = 0 THEN 0 ELSE CHOOSE j \in keep : j > Nth[k - 1] /\
                               \A h \in keep : h > Nth[k - 1] => j <= h
  IN  [k \in 1..Cardinality(keep) |-> list[Nth[k]]]

\* removeImage that drops every image equal to the one at index.
removeImage_ByValue(index) ==
  /\ index \in 0..(Len(images) - 1)
  /\ images' = SelectSeq(images, LAMBDA x : x # images[index + 1])
  /\ picking' = [picking EXCEPT !.index = index]
  /\ UNCHANGED <<dbVars, clientVars, statVars, suggVars, uploadVars,
                 trackerVars, save>>

\* removeImage(index): the remove button of the image at index is pressed.
removeImage(index) ==
  /\ index \in 0..(Len(images) - 1)
  /\ images' = FilterIndex(images, index)
  /\ picking' = [picking EXCEPT !.index = index]
  /\ UNCHANGED <<dbVars, clientVars, statVars, suggVars, uploadVars,
                 trackerVars, save>>

\* A form with at most maxImages images.
InitPicker ==
  /\ clothing_items = {}
  /\ wear_history = EmptyBag
  /\ itemSeq = 0
  /\ session = [c \in Clients |-> "u1"]
  /\ pc = [c \in Clients |-> "idle"]
  /\ ctx = [c \in Clients |-> Idle]
  /\ today = 1
  /\ StatInit
  /\ SuggInit
  /\ UploadInit
  /\ trackerItems = <<>>
  /\ addingWearFor = NULL
  /\ wearCalls = <<>>
  /\ wearAdded = 0
  /\ taps = 0
  /\ selectedItem = NoItem
  /\ detailLoading = FALSE
  /\ detailCall = NoDetailCall
  /\ images \in ImageLists
  /\ picking = NoPick
  /\ save = NoSave

NextPicker ==
  \/ \E op \in {"takePhoto", "pickFromLibrary"} : showImagePicker(op)
  \/ takePhoto
  \/ pickFromLibrary
  \/ \E index \in 0..(maxImages - 1) : removeImage(index)

SpecPicker == InitPicker /\ [][NextPicker]_vars

\* ------------------------------ saving with images: AddItem and ItemDetail
\* The url of an image that an earlier save stored.
StoredUrl == <<"u1", 0, "jpg">>

\* The images of the item form when Save is pressed: local uris only.
AddLists == {list \in UriLists : Len(list) > 0 /\ Len(list) <= maxImages}

\* editedItem.image_urls when Save is pressed: stored urls that the picker
\* kept, then the local uris that it appended.
EditLists(stored) ==
  { kept \o [n \in 1..Len(list) |-> LocalImage(list[n])] :
      kept \in {<<>>, stored},
      list \in {l \in UriLists : Len(l) + Len(stored) <= maxImages} }

\* list.filter(url => url.startsWith('file://')) and its complement.
LocalImages(list) == SelectSeq(list, LAMBDA x : x.local)
StoredImages(list) == SelectSeq(list, LAMBDA x : ~x.local)

\* uploadResults.filter(result => result.success && result.url)
\*              .map(result => result.url)
SuccessfulUrls_All(rs) ==
  [n \in 1..Len(rs) |-> StoredImage(rs[n].url)]

SuccessfulUrls(rs) ==
  LET ok == SelectSeq(rs, LAMBDA r : r.success /\ r.url # <<>>)
  IN  [n \in 1..Len(ok) |-> StoredImage(ok[n].url)]

\* uploadResults.filter(result => !result.success)
failedUploads(rs) == SelectSeq(rs, LAMBDA r : ~r.success)

\* editedItem.image_urls.map(url => url.startsWith('file://')
\*   ? (uploadResults.find(result => result.success)?.url || url) : url)
finalImageUrls(list, rs) ==
  LET found == SuccessfulUrls(rs)
  IN  [n \in 1..Len(list) |->
         IF list[n].local
         THEN (IF found # <<>> THEN found[1] ELSE list[n])
         ELSE list[n]]

\* proceedWithSave of AddItem: the insert into clothing_items with
\* image_urls: imageUrls.length > 0 ? imageUrls : null (null is the empty
\* list here), for an item saved with 'Times Already Worn' 0.
InsertItem(rows, id, uid, imageUrls) ==
  rows \cup {[id |-> id, user_id |-> uid, times_worn |-> 0,
              last_worn_date |-> NULL, brand |-> <<>>, subcategory |-> <<>>,
              image_urls |-> imageUrls]}

\* proceedWithSave of ItemDetail: update ... .eq('id', item.id) by uid.
UpdateItem(rows, id, uid, imageUrls) ==
  { IF r.id = id /\ Policy(uid, r) THEN [r EXCEPT !.image_urls = imageUrls]
    ELSE r : r \in rows }

\* proceedWithSave(imageUrls) of the flow under way: the request is answered
\* or fails, and the alert says which.
proceedWithSave(imageUrls, choice) ==
  \E ok \in BOOLEAN :
    /\ IF ok
       THEN IF save.flow = "add"
            THEN /\ clothing_items' =
                      InsertItem(clothing_items, itemSeq + 1, session[Device], imageUrls)
                 /\ itemSeq' = itemSeq + 1
            ELSE /\ clothing_items' =
                      UpdateItem(clothing_items, save.item, session[Device], imageUrls)
                 /\ UNCHANGED itemSeq
       ELSE UNCHANGED <<clothing_items, itemSeq>>
    /\ save' = [save EXCEPT !.pc = "done", !.imageUrls = imageUrls,
                            !.choice = choice,
                            !.res = IF ok THEN "saved" ELSE "failed"]

\* handleSave of AddItem with images picked, up to its await of
\* uploadMultipleImages(item.images, user.id).
handleSave(list) ==
  /\ save.pc \in {"idle", "done"}
  /\ upPc # "loop"
  /\ itemSeq < MaxItems
  /\ save' = [NoSave EXCEPT !.pc = "upload", !.flow = "add",
                            !.images = [n \in 1..Len(list) |-> LocalImage(list[n])]]
  /\ upPc' = "loop"
  /\ uris' = list
  /\ started' = <<>>
  /\ active' = {}
  /\ results' = <<>>
  /\ UNCHANGED <<dbVars, clientVars, statVars, suggVars, trackerVars,
                 images, picking>>

\* ItemDetail.handleSaveEdit for item id with the edited image list: without
\* a local image proceedWithSave runs at once, else uploadMultipleImages is
\* awaited.
handleSaveEdit(id, list) ==
  /\ save.pc = "idle"
  /\ upPc # "loop"
  /\ IF LocalImages(list) = <<>>
     THEN /\ \E ok \in BOOLEAN :
               /\ clothing_items' =
                    IF ok THEN UpdateItem(clothing_items, id, session[Device], list)
                    ELSE clothing_items
               /\ save' = [NoSave EXCEPT !.pc = "done", !.flow = "edit",
                                         !.item = id, !.images = list,
                                         !.imageUrls = list,
                                         !.res = IF ok THEN "saved" ELSE "failed"]
          /\ UNCHANGED <<wear_history, itemSeq, uploadVars>>
     ELSE /\ save' = [NoSave EXCEPT !.pc = "upload", !.flow = "edit",
                                    !.item = id, !.images = list]
          /\ upPc' = "loop"
          /\ uris' = [n \in 1..Len(LocalImages(list)) |-> LocalImages(list)[n].uri]
          /\ started' = <<>>
          /\ active' = {}
          /\ results' = <<>>
          /\ UNCHANGED dbVars
  /\ UNCHANGED <<clientVars, statVars, suggVars, trackerVars, images, picking>>

\* handleSave and handleSaveEdit after uploadMultipleImages has returned: the
\* 'Upload Error' alert when an upload failed, else proceedWithSave with the
\* urls of the uploads.
saveAfterUpload ==
  /\ save.pc = "upload"
  /\ upPc = "done"
  /\ IF failedUploads(results) # <<>>
     THEN /\ save' = [save EXCEPT !.pc = "alert"]
          /\ UNCHANGED <<clothing_items, itemSeq>>
     ELSE proceedWithSave(IF save.flow = "add" THEN SuccessfulUrls(results)
                          ELSE finalImageUrls(save.images, results), "none")
  /\ UNCHANGED <<wear_history, clientVars, statVars, suggVars, uploadVars,
                 trackerVars, images, picking>>

\* The 'Upload Error' alert is answered: Cancel, or Continue with the images
\* that the flow keeps.
uploadErrorAlert(choice) ==
  /\ save.pc = "alert"
  /\ IF choice = "continue"
     THEN proceedWithSave(IF save.flow = "add" THEN SuccessfulUrls(results)
                          ELSE StoredImages(save.images), choice)
     ELSE /\ save' = [save EXCEPT !.pc = "done", !.choice = choice]
          /\ UNCHANGED <<clothing_items, itemSeq>>
  /\ UNCHANGED <<wear_history, clientVars, statVars, suggVars, uploadVars,
                 trackerVars, images, picking>>

\* One user with one item, stored with one image or none.
InitSave ==
  /\ \E stored \in {<<>>, <<StoredImage(StoredUrl)>>} :
       clothing_items = InsertItem({}, 1, "u1", stored)
  /\ wear_history = EmptyBag
  /\ itemSeq = 1
  /\ session = [c \in Clients |-> "u1"]
  /\ pc = [c \in Clients |-> "idle"]
  /\ ctx = [c \in Clients |-> Idle]
  /\ today = 1
  /\ StatInit
  /\ SuggInit
  /\ UploadInit
  /\ UiInit

NextSave ==
  \/ \E list \in AddLists : handleSave(list)
  \/ \E r \in clothing_items : \E list \in EditLists(r.image_urls) :
       handleSaveEdit(r.id, list)
  \/ \E i \in 1..MaxImages : uploadImage(i)
  \/ \E i \in 1..MaxImages : uploadImageResolve(i)
  \/ uploadReturn
  \/ saveAfterUpload
  \/ \E choice \in {"cancel", "continue"} : uploadErrorAlert(choice)

SpecSave == InitSave /\ [][NextSave]_vars

\* ================================================================== claims
Quiescent == \A c \in Clients : pc[c] = "idle"

\* The number of wear_history rows that reference item id.
WearCount(wears, id) ==
  BagCardinality([w \in RowsOf(wears, id) |-> wears[w]])

ItemById(rows, id) == CHOOSE r \in rows : r.id = id

WearRows ==
  [user_id : Users, clothing_item_id : 1..MaxItems, date_worn : Dates \cup {NULL}]

\* C1: whenever no item creation is under way, every item's times_worn equals
\* the number of wear_history rows that reference the item.
C1_TimesWornEqualsRowCount ==
  Quiescent =>
    \A r \in clothing_items : r.times_worn = WearCount(wear_history, r.id)

\* C2: the seed insert of an item created with 'Times Already Worn' N > 0 adds
\* exactly N rows with date_worn absent for the item, and when it has run the
\* item's times_worn is N and its last_worn_date is absent.
C2_SeedGivesCountN ==
  [][\A c \in Clients :
       (pc[c] = "seed" /\ pc'[c] = "idle" /\ wear_history' # wear_history) =>
         LET id  == ctx[c].item
             n   == ctx[c].n
             row == WearRow(session[c], id, NULL)
         IN  /\ CopiesIn(row, wear_history') = CopiesIn(row, wear_history) + n
             /\ WearCount(wear_history', id) = WearCount(wear_history, id) + n
             /\ \A r \in clothing_items' :
                  r.id = id => r.times_worn = n /\ r.last_worn_date = NULL]_vars

\* C3 (its clause on earlier and absent dates): an insert of one wear event
\* whose date_worn is absent, or earlier than the item's last_worn_date, leaves
\* the item's last_worn_date as it was.
C3_EarlierOrAbsentDateKeepsLastWorn ==
  [][\A r \in clothing_items : \A new \in WearRows :
       ( /\ wear_history' = wear_history (+) SetToBag({new})
         /\ new.clothing_item_id = r.id
         /\ r.last_worn_date # NULL
         /\ (new.date_worn = NULL \/ new.date_worn < r.last_worn_date) )
       => \E r2 \in clothing_items' :
            r2.id = r.id /\ r2.last_worn_date = r.last_worn_date]_vars

\* C4: a handleAddWear insert that returns without error adds exactly one
\* wear_history row, for the tapped item, raises that item's times_worn by
\* exactly 1, and leaves every other item as it was.
C4_RecordWearAddsOneRowAndOne ==
  [][\A c \in Clients :
       (pc[c] = "wear" /\ pc'[c] = "wear_done" /\ ctx'[c].res = "ok") =>
         LET id  == ctx[c].item
             row == WearRow(session[c], id, ctx[c].date)
         IN  /\ wear_history' = wear_history (+) SetToBag({row})
             /\ {r.id : r \in clothing_items'} = {r.id : r \in clothing_items}
             /\ \A r \in clothing_items :
                  IF r.id = id
                  THEN ItemById(clothing_items', id).times_worn = r.times_worn + 1
                  ELSE r \in clothing_items']_vars

\* C4 witness: an item worn twice, last on day 1, has been logged on day 2 and
\* stands at 3 wears with last_worn_date 2, next to an item never worn.
C4_Witness ==
  \E c \in Clients :
    /\ pc[c] = "wear_done" /\ ctx[c].res = "ok" /\ ctx[c].seen = 2 /\ ctx[c].date = 2
    /\ \E r \in clothing_items :
         r.id = ctx[c].item /\ r.times_worn = 3 /\ r.last_worn_date = 2
    /\ \E r \in clothing_items :
         r.id # ctx[c].item /\ r.times_worn = 0 /\ r.last_worn_date = NULL

\* The responses of two devices have come back for the same item, and the
\* transport lost neither request.
BothAnswered(c1, c2) ==
  /\ c1 # c2
  /\ pc[c1] = "wear_done" /\ pc[c2] = "wear_done"
  /\ ctx[c1].res # "network" /\ ctx[c2].res # "network"
  /\ ctx[c1].item = ctx[c2].item

BothLogged(c1, c2) ==
  BothAnswered(c1, c2) /\ ctx[c1].res = "ok" /\ ctx[c2].res = "ok"

\* C5: when two devices tap the same item while it shows the same times_worn
\* and both requests reach the backend, both inserts succeed and the item's
\* times_worn is exactly 2 higher than the value both read, in every
\* interleaving.
C5_ConcurrentWearsBothCount ==
  \A c1, c2 \in Clients :
    (BothAnswered(c1, c2) /\ ctx[c1].seen = ctx[c2].seen) =>
      /\ ctx[c1].res = "ok" /\ ctx[c2].res = "ok"
      /\ ItemById(clothing_items, ctx[c1].item).times_worn = ctx[c1].seen + 2

\* C5 witness: both requests were pending at once (neither device saw the
\* other's wear) and both have returned without error.
C5_Witness ==
  \E c1, c2 \in Clients :
    /\ BothLogged(c1, c2) /\ ctx[c1].seen = 1 /\ ctx[c2].seen = 1
    /\ ItemById(clothing_items, ctx[c1].item).times_worn = 3

\* C6: two wears logged for the same item with the same date are two rows of
\* wear_history, and times_worn has gone up by 2 (or more) since the earlier tap.
C6_SameWearTwiceIsTwoEvents ==
  \A c1, c2 \in Clients :
    (BothLogged(c1, c2) /\ ctx[c1].date = ctx[c2].date /\ ctx[c1].seen <= ctx[c2].seen) =>
      /\ CopiesIn(WearRow(session[c1], ctx[c1].item, ctx[c1].date), wear_history) >= 2
      /\ ItemById(clothing_items, ctx[c1].item).times_worn >= ctx[c1].seen + 2

\* C6 witness: the second call was made after the first had been counted, with
\* the same item and date, and the table holds the row twice.
C6_Witness ==
  \E c1, c2 \in Clients :
    /\ BothLogged(c1, c2) /\ ctx[c1].date = ctx[c2].date
    /\ ctx[c1].seen = 0 /\ ctx[c2].seen = 1
    /\ CopiesIn(WearRow(session[c1], ctx[c1].item, ctx[c1].date), wear_history) = 2
    /\ ItemById(clothing_items, ctx[c1].item).times_worn = 2

\* C7: no item is stored with times_worn below 0.
C7_TimesWornNeverNegative ==
  \A r \in clothing_items : r.times_worn >= 0

\* C8: no wear event exists for an item that is missing or that is not owned
\* by the user who logged the event.
C8_NoWearEventOnForeignItem ==
  \A w \in BagToSet(wear_history) :
    \E r \in clothing_items : r.id = w.clothing_item_id /\ r.user_id = w.user_id

\* C9: the cost per wear shown is absent exactly when purchase_price is absent
\* or times_worn is 0, and otherwise is purchase_price / times_worn.
C9_CostPerWearAbsentIffNoPriceOrNoWear ==
  costPerWear.item # 0 =>
    LET item == items[costPerWear.item]
        cpw  == costPerWear.value
    IN  /\ cpw.absent <=> (item.purchase_price = NULL \/ item.times_worn = 0)
        /\ ~cpw.absent => cpw.num * item.times_worn = item.purchase_price * cpw.den

RECURSIVE SumOver(_, _)
\* The sum of f[i] over the indices i in S.
SumOver(S, f) ==
  IF S = {} THEN 0
  ELSE LET i == CHOOSE j \in S : TRUE IN f[i] + SumOver(S \ {i}, f)

\* C10: the statistics fetchStats stores are totalItems = the number of rows,
\* totalTimesWorn = the sum of times_worn, totalValue = the sum of the prices
\* that are present, and categoryCounts = the map from exactly the categories
\* that occur to the number of rows of each (so the counts sum to totalItems).
C10_OverviewTotalsAndCategoryCounts ==
  ~isLoading =>
    LET idx  == 1..Len(items)
        cats == {items[i].category : i \in idx}
    IN  /\ stats.totalItems = Cardinality(idx)
        /\ stats.totalTimesWorn = SumOver(idx, [i \in idx |-> items[i].times_worn])
        /\ stats.totalValue =
             SumOver({i \in idx : items[i].purchase_price # NULL},
                     [i \in idx |-> items[i].purchase_price])
        /\ DOMAIN stats.categoryCounts = cats
        /\ \A k \in cats :
             stats.categoryCounts[k] = Cardinality({i \in idx : items[i].category = k})
        /\ SumOver(cats, stats.categoryCounts) = stats.totalItems

\* C10 witness: a full list with two rows of one category, one of them without
\* a price and the other with one.
C10_Witness ==
  /\ ~isLoading
  /\ Len(items) = MaxList
  /\ \E i, j \in 1..Len(items) :
       /\ i # j
       /\ items[i].category = items[j].category
       /\ items[i].purchase_price = NULL
       /\ items[j].purchase_price = MaxPrice
       /\ items[i].times_worn > 0
  /\ stats.totalValue >= MaxPrice
  /\ \E k \in DOMAIN stats.categoryCounts : stats.categoryCounts[k] >= 2

\* C11: for a non-empty list of rows mostWornItem is the first row, in the
\* order of the list, among the rows with the largest times_worn (also when
\* the largest is 0); for an empty list it is null.
C11_MostWornIsFirstOfTheMostWorn ==
  ~isLoading =>
    LET idx  == 1..Len(items)
        most == {i \in idx : \A j \in idx : items[j].times_worn <= items[i].times_worn}
    IN  IF items = <<>>
        THEN stats.mostWornItem = 0
        ELSE /\ stats.mostWornItem \in most
             /\ \A i \in most : stats.mostWornItem <= i

\* C11 witness: a full list in which no row was ever worn; the first row is
\* shown as the most worn one.
C11_Witness ==
  /\ ~isLoading
  /\ Len(items) = MaxList
  /\ \A i \in 1..Len(items) : items[i].times_worn = 0
  /\ stats.mostWornItem = 1

\* The rows of list in the order p.
Permuted(list, p) == [i \in 1..Len(list) |-> list[p[i]]]

CallStep(k) ==
  /\ call[k].pc = "idle"
  /\ \/ call'[k].pc = "query"
     \/ returned' # returned /\ returned'.how = "cache"

\* The forceRefresh argument of the call made in a CallStep.
CallForce(k) ==
  IF call'[k].pc = "query" THEN call'[k].forceRefresh ELSE returned'.forceRefresh

\* C13: a getSuggestions call with forceRefresh false, made while a cache
\* exists and less than CACHE_DURATION after lastCacheTime, returns the cached
\* object itself and sends no select; a call with forceRefresh true, with no
\* cache, or at an age of CACHE_DURATION or more sends a select.
C13_FreshCacheServedElseQueried ==
  [][\A k \in Callers :
       CallStep(k) =>
         IF /\ ~CallForce(k)
            /\ suggestionsCache # NoCache
            /\ now - lastCacheTime < CACHE_DURATION
         THEN /\ call' = call
              /\ returned'.value = suggestionsCache
              /\ suggestionsCache' = suggestionsCache
         ELSE call'[k].pc = "query"]_vars

\* C13 witness: the cache filled at minute 1 is served at minute 5, one minute
\* before it expires.
C13_Witness ==
  /\ returned.how = "cache"
  /\ returned.value.id = suggestionsCache.id /\ suggestionsCache.id >= 1
  /\ now - lastCacheTime = CACHE_DURATION - 1
  /\ \A k \in Callers : call[k].pc = "idle"

\* C14: a getSuggestions call whose select fails resolves to empty lists, and
\* leaves the cached object and lastCacheTime exactly as they were.
C14_FailedQueryKeepsCache ==
  [][\A k \in Callers :
       (call[k].pc = "query" /\ call'[k].pc = "idle" /\ returned'.how = "error") =>
         /\ returned'.value.brands = <<>>
         /\ returned'.value.subcategories = <<>>
         /\ suggestionsCache' = suggestionsCache
         /\ lastCacheTime' = lastCacheTime]_vars

\* C14 witness: a call without forceRefresh failed while a cache that had
\* expired was there, and the cache with its old time is still there.
C14_Witness ==
  /\ returned.how = "error" /\ ~returned.forceRefresh
  /\ suggestionsCache # NoCache /\ suggestionsCache.brands # <<>>
  /\ now - lastCacheTime >= CACHE_DURATION

\* A list in strictly ascending order (so without duplicates) of trimmed,
\* non-empty values.
Ascending(list) ==
  /\ \A i, j \in 1..Len(list) : i < j => StrLess(list[i], list[j])
  /\ \A i \in 1..Len(list) : list[i] # <<>> /\ Trim(list[i]) = list[i]

\* C15: the brands and subcategories of the cache, and of the value a
\* getSuggestions call returned, hold no duplicate, no empty and no untrimmed
\* value and are in ascending order.
C15_ListsUniqueTrimmedSorted ==
  /\ Ascending(suggestionsCache.brands)
  /\ Ascending(suggestionsCache.subcategories)
  /\ Ascending(returned.value.brands)
  /\ Ascending(returned.value.subcategories)

\* C15 witness: "Z" was added to both lists of a cache that held "a" in both
\* and has been returned from the cache since.
C15_Witness ==
  /\ suggestionsCache.brands = << <<"Z">>, <<"a">> >>
  /\ suggestionsCache.subcategories = << <<"Z">>, <<"a">> >>
  /\ returned.how = "cache" /\ returned.value = suggestionsCache

\* The distinct trimmed non-empty values of a column, as a set.
DistinctTrimmed(values) == {Trim(v) : v \in values} \ {<<>>}

\* The elements of a list.
Elements(list) == {list[i] : i \in 1..Len(list)}

\* C16: a getSuggestions call whose select succeeds returns the object it
\* stores as the cache, with lastCacheTime the time taken when the call was
\* made, and its two lists hold, once each, exactly the distinct trimmed
\* non-empty brand and subcategory values of the items of the user asked for.
C16_QueryStoresDistinctTrimmedValues ==
  [][\A k \in Callers :
       (call[k].pc = "query" /\ call'[k].pc = "idle" /\ returned'.how = "query") =>
         LET mine == {r \in clothing_items : r.user_id = call[k].userId}
             v    == returned'.value
         IN  /\ suggestionsCache' = v
             /\ v.id # suggestionsCache.id
             /\ lastCacheTime' = call[k].now
             /\ Elements(v.brands) = DistinctTrimmed({r.brand : r \in mine})
             /\ Len(v.brands) = Cardinality(Elements(v.brands))
             /\ Elements(v.subcategories) = DistinctTrimmed({r.subcategory : r \in mine})
             /\ Len(v.subcategories) = Cardinality(Elements(v.subcategories))]_vars

\* C16 witness: the two items of u1 carry the brands " a" and "Z" and the
\* second query, made at minute 5, returned "Z", "a" and is the cache.
C16_Witness ==
  /\ returned.how = "query" /\ returned.userId = "u1"
  /\ returned.value = suggestionsCache
  /\ {r.brand : r \in {x \in clothing_items : x.user_id = "u1"}} = {<<" ", "a">>, <<"Z">>}
  /\ returned.value.brands = << <<"Z">>, <<"a">> >>
  /\ returned.value.subcategories = << <<"a">> >>
  /\ lastCacheTime = 5 /\ suggestionsCache.id = 2

\* A step of addToSuggestionsCache that changes the cache: no call is made or
\* resolved, the cache is not cleared and nobody signs in.
AddStep ==
  /\ suggestionsCache' # suggestionsCache /\ suggestionsCache' # NoCache
  /\ call' = call /\ returned' = returned /\ cleared' = cleared
  /\ session' = session

\* C17: addToSuggestionsCache changes something only when a cache exists and
\* the trimmed value is non-empty and not in the list of its type; it then
\* adds the trimmed value to that list and leaves the other list, the object
\* and lastCacheTime as they were.
C17_AddOnlyExtendsOneList ==
  [][AddStep =>
       /\ suggestionsCache # NoCache
       /\ lastCacheTime' = lastCacheTime
       /\ suggestionsCache'.id = suggestionsCache.id
       /\ \E value \in AddValues :
            LET t == Trim(value)
                old == suggestionsCache
                new == suggestionsCache'
            IN  /\ t # <<>>
                /\ \/ /\ t \notin Elements(old.brands)
                      /\ Elements(new.brands) = Elements(old.brands) \cup {t}
                      /\ Len(new.brands) = Len(old.brands) + 1
                      /\ new.subcategories = old.subcategories
                   \/ /\ t \notin Elements(old.subcategories)
                      /\ Elements(new.subcategories) = Elements(old.subcategories) \cup {t}
                      /\ Len(new.subcategories) = Len(old.subcategories) + 1
                      /\ new.brands = old.brands]_vars

\* C17 witness: "Z " was added as a subcategory, minutes after the cache was
\* filled, and the brands do not hold it.
C17_Witness ==
  /\ suggestionsCache # NoCache
  /\ <<"Z">> \in Elements(suggestionsCache.subcategories)
  /\ <<"Z">> \notin Elements(suggestionsCache.brands)
  /\ suggestionsCache.brands # <<>>
  /\ lastCacheTime < now

\* C18: the first getSuggestions call after clearSuggestionsCache sends a
\* select, and from clearSuggestionsCache until that select is answered no
\* addToSuggestionsCache changes anything.
C18_AfterClearNextCallQueries ==
  [][/\ (cleared = "yes" /\ cleared' # "yes") =>
          \E k \in Callers : cleared' = k /\ call'[k].pc = "query"
     /\ cleared # "no" => ~AddStep]_vars

\* C19: the cache belongs to the process and not to a user. Signing in as
\* another user leaves it as it is, and a call without forceRefresh by the
\* user now signed in, made while the cache filled for another user is less
\* than CACHE_DURATION old, returns that cache and sends no select.
C19_CacheSharedAcrossUsers ==
  [][/\ session' # session =>
          suggestionsCache' = suggestionsCache /\ lastCacheTime' = lastCacheTime
     /\ \A k \in Callers :
          ( /\ CallStep(k)
            /\ ~CallForce(k)
            /\ returned.how = "query" /\ returned.value.id = suggestionsCache.id
            /\ returned.userId # session[Device]
            /\ now - lastCacheTime < CACHE_DURATION )
          => /\ call' = call
             /\ returned'.userId = session[Device]
             /\ returned'.value = suggestionsCache]_vars

\* C19 witness: u2, whose item has the brand "Z", was handed the list of u1.
C19_Witness ==
  /\ returned.how = "cache" /\ returned.userId = "u2"
  /\ returned.value.brands = << <<"a">> >>
  /\ \E r \in clothing_items : r.user_id = "u2" /\ r.brand = <<"Z">>
  /\ \A r \in clothing_items : r.user_id = "u2" => r.brand # <<"a">>

\* C20: uploadMultipleImages has at most one uploadImage under way, calls it
\* for the uris in their order and only when the results of all uris before
\* are in, and returns only when every uri has its result, failed or not, at
\* the position of the uri.
C20_UploadsOneAtATimeInOrder ==
  /\ Cardinality(active) <= 1
  /\ \A i \in active : i = Len(results) + 1
  /\ \A n \in 1..Len(started) : started[n] = n
  /\ Len(started) = Len(results) + Cardinality(active)
  /\ Len(results) <= Len(uris)
  /\ \A i \in 1..Len(results) : results[i].pos = i
  /\ upPc = "done" => Len(results) = Len(uris)

\* C20 witness: three uris were passed, the first upload failed and the two
\* after it were made and succeeded.
C20_Witness ==
  /\ upPc = "done" /\ Len(uris) = MaxImages /\ Len(results) = MaxImages
  /\ ~results[1].success
  /\ \A i \in 2..MaxImages : results[i].success


\* The step deletes the wear event w.
DeleteStep(w) ==
  /\ BagIn(w, wear_history)
  /\ wear_history' = wear_history (-) SetToBag({w})

\* The dates of the dated wear events of item id.
DatedWears(wears, id) ==
  { x.date_worn : x \in { y \in RowsOf(wears, id) : y.date_worn # NULL } }

\* C24: deleting a wear event lowers the times_worn of the item the event
\* references by 1, never below 0, and sets its last_worn_date to the latest
\* date_worn of the item's remaining dated wear events, or to absent when none
\* remains.
C24_DeleteDecrementsAndRecomputes ==
  [][\A w \in WearRows : DeleteStep(w) =>
       \A r \in clothing_items : r.id = w.clothing_item_id =>
         LET after == ItemById(clothing_items', r.id)
         IN  /\ after.times_worn = Max(r.times_worn - 1, 0)
             /\ after.last_worn_date =
                  SetMax(DatedWears(wear_history', r.id))]_vars

\* C24 for the deletion of an event that its item's owner logged, while every
\* event of the item is the owner's.
C24_OwnEventsOnly ==
  [][\A w \in WearRows : DeleteStep(w) =>
       \A r \in clothing_items :
         (/\ r.id = w.clothing_item_id
          /\ \A x \in RowsOf(wear_history, r.id) : x.user_id = r.user_id) =>
         LET after == ItemById(clothing_items', r.id)
         IN  /\ after.times_worn = Max(r.times_worn - 1, 0)
             /\ after.last_worn_date =
                  SetMax(DatedWears(wear_history', r.id))]_vars


\* The step ends the seed insert of client c without a row stored.
SeedFailed(c) ==
  /\ pc[c] = "seed"
  /\ pc'[c] = "idle"
  /\ wear_history' = wear_history

\* C27: creating an item with an initial wear count is all or nothing: a seed
\* insert that fails never ends in an item that is reported as added while
\* its times_worn differs from the number of its wear events.
C27_SeedFailureNeverReportedAsAdded ==
  [][\A c \in Clients : SeedFailed(c) =>
       ~(/\ ctx'[c].res = "added"
         /\ \E r \in clothing_items' :
              /\ r.id = ctx[c].item
              /\ r.times_worn # WearCount(wear_history', r.id))]_vars


\* The values that addToSuggestionsCache put into list f of the cache that
\* the call of k found, since that call read the cache.
AddedSince(k, f) ==
  IF suggestionsCache # NoCache /\ suggestionsCache.id = call[k].found.id
  THEN Elements(suggestionsCache[f]) \ Elements(call[k].found[f])
  ELSE {}

\* C30: a query that was issued before a value was added to the cache and is
\* answered after it keeps the added value in the cache and does not move
\* lastCacheTime backwards.
C30_QueryInFlightKeepsAddedValue ==
  [][\A k \in Callers :
       (call[k].pc = "query" /\ call'[k].pc # "query" /\ suggestionsCache' # NoCache) =>
         /\ AddedSince(k, "brands") \subseteq Elements(suggestionsCache'.brands)
         /\ AddedSince(k, "subcategories") \subseteq
              Elements(suggestionsCache'.subcategories)
         /\ lastCacheTime' >= lastCacheTime]_vars


\* The step is the part after the await of the n-th waiting handleAddWear call
\* of the tracker.
TrackerEnds(n) ==
  /\ n \in 1..Len(wearCalls)
  /\ wearCalls[n].res # "sent"
  /\ wearCalls' = RemoveAt(wearCalls, n)

\* C23: in both wear-logging flows the local copy of the item gets
\* times_worn + 1 and last_worn_date = today, and the callback fires, only
\* after the insert has returned without error; after an error or an exception
\* the local state is unchanged, no callback fires and no insert is sent
\* again.
C23_LocalUpdateOnlyAfterInsertOk ==
  [][/\ \A n \in 1..MaxTaps : TrackerEnds(n) =>
          LET c == wearCalls[n]
          IN  IF c.res = "ok"
              THEN /\ trackerItems'[c.item] =
                        [c.items[c.item] EXCEPT !.times_worn = @ + 1,
                                                !.last_worn_date = today]
                   /\ wearAdded' = wearAdded + 1
              ELSE /\ trackerItems' = trackerItems
                   /\ wearAdded' = wearAdded
                   /\ wear_history' = wear_history
     /\ (trackerItems' # trackerItems \/ wearAdded' # wearAdded) =>
          \E n \in 1..MaxTaps : TrackerEnds(n) /\ wearCalls[n].res = "ok"
     /\ (/\ Len(wearCalls') = Len(wearCalls)
         /\ \E n \in 1..Len(wearCalls) :
              wearCalls'[n].res = "ok" /\ wearCalls[n].res = "sent") =>
          BagCardinality(wear_history') = BagCardinality(wear_history) + 1
     /\ Len(wearCalls') > Len(wearCalls) => taps' = taps + 1
     /\ selectedItem' # selectedItem =>
          /\ detailCall.pc = "answered" /\ detailCall.res = "ok"
          /\ selectedItem' = [detailCall.item EXCEPT !.times_worn = @ + 1,
                                                     !.last_worn_date = today]
     /\ (detailCall.pc = "answered" /\ detailCall.res # "ok"
         /\ detailCall' # detailCall) =>
          /\ selectedItem' = selectedItem
          /\ detailCall' = NoDetailCall
          /\ wear_history' = wear_history
     /\ (detailCall.pc = "sent" /\ detailCall'.res = "ok") =>
          BagCardinality(wear_history') = BagCardinality(wear_history) + 1
    ]_vars


\* C23 witness: three +1 taps have been handled to the end: one insert of the
\* tracker was answered and its item's copy shows one wear, one insert of the
\* tracker failed, and the insert of the detail screen was answered.
C23_Witness ==
  /\ taps = MaxTaps /\ wearCalls = <<>> /\ detailCall = NoDetailCall
  /\ wearAdded = 1
  /\ \E i \in DOMAIN trackerItems :
       trackerItems[i].times_worn = 1 /\ trackerItems[i].last_worn_date = today
  /\ selectedItem.times_worn = 1
  /\ BagCardinality(wear_history) = 2


\* The waiting calls of the tracker whose insert for item i is not answered.
InFlight(i) ==
  {n \in 1..Len(wearCalls) : wearCalls[n].item = i /\ wearCalls[n].res = "sent"}

\* C28: in the tracker at most one wear_history insert per item is in flight.
C28_OneInsertInFlightPerItem ==
  \A i \in DOMAIN trackerItems : Cardinality(InFlight(i)) <= 1

\* C29: when the inserts of two overlapping handleAddWear calls for different
\* items both succeed, the update of the one call is still in the local list
\* after the update of the other: the call that ends last raises its item's
\* times_worn and leaves every other item's local copy as it was.
C29_LocalUpdatesDoNotOverwrite ==
  [][\A n \in 1..MaxTaps :
       (TrackerEnds(n) /\ wearCalls[n].res = "ok") =>
         \A j \in DOMAIN trackerItems :
           j # wearCalls[n].item => trackerItems'[j] = trackerItems[j]]_vars


\* The step changes the images through removeImage.
RemoveStep ==
  /\ picking'.op = picking.op
  /\ picking'.images = picking.images
  /\ picking'.index # NULL
  /\ Len(images) > picking'.index

\* C25: the image list of the picker never holds more than maxImages (3)
\* entries, and removeImage(i) removes the entry at index i and nothing else
\* and keeps the order of the other entries.
C25_AtMostMaxImagesAndRemoveExact ==
  /\ Len(images) <= maxImages
  /\ [][/\ Len(images') <= maxImages
        /\ RemoveStep =>
             LET i == picking'.index + 1
             IN  /\ Len(images') = Len(images) - 1
                 /\ \A j \in 1..Len(images') :
                      images'[j] = IF j < i THEN images[j] ELSE images[j + 1]]_vars

\* C25 witness: a full list, of which the first and the last image are equal
\* and the one between them differs, from which an image was removed before.
C25_Witness ==
  /\ Len(images) = maxImages
  /\ images[1] = images[maxImages]
  /\ images[2] # images[1]
  /\ picking.index # NULL
  /\ picking.op = "none"


\* The step answers the 'Upload Error' alert of the flow with choice.
AlertStep(flow, choice) ==
  /\ save.pc = "alert" /\ save.flow = flow
  /\ save'.pc = "done" /\ save'.choice = choice

\* The urls of the uploads that succeeded, in upload order.
UploadedUrls ==
  LET ok == SelectSeq(results, LAMBDA r : r.success)
  IN  [n \in 1..Len(ok) |-> StoredImage(ok[n].url)]

\* The rows that the step adds to clothing_items.
NewRows == clothing_items' \ clothing_items

\* C21: in AddItem, when an upload has failed, an item is inserted only by the
\* user's choice of Continue; the item that Continue stores has image_urls
\* equal to the urls of the successful uploads in upload order, and Cancel
\* stores nothing.
C21_ContinueStoresSuccessfulUrls ==
  [][/\ (save.flow = "add" /\ failedUploads(results) # <<>>
         /\ clothing_items' # clothing_items) =>
          AlertStep("add", "continue")
     /\ AlertStep("add", "continue") =>
          IF save'.res = "saved"
          THEN \E r \in NewRows :
                 /\ NewRows = {r}
                 /\ r.image_urls = UploadedUrls
                 /\ \A n \in 1..Len(r.image_urls) : ~r.image_urls[n].local
          ELSE clothing_items' = clothing_items
     /\ AlertStep("add", "cancel") => clothing_items' = clothing_items
    ]_vars

\* C21 witness: three images were passed, the second upload failed, Continue
\* was chosen and the item is stored with the urls of the first and the third
\* upload.
C21_Witness ==
  /\ save.pc = "done" /\ save.flow = "add" /\ save.choice = "continue"
  /\ save.res = "saved"
  /\ Len(results) = 3
  /\ results[1].success /\ ~results[2].success /\ results[3].success
  /\ \E r \in clothing_items :
       /\ r.id = itemSeq
       /\ r.image_urls = <<StoredImage(results[1].url), StoredImage(results[3].url)>>

\* Some but not all of the uploads failed.
PartialFailure ==
  /\ \E n \in 1..Len(results) : results[n].success
  /\ \E n \in 1..Len(results) : ~results[n].success

\* C22: in the edit flow, when some but not all uploads of the new local
\* images failed and the user chooses Continue, the item is saved with the
\* stored urls it had in the edited list followed by the urls of the uploads
\* that succeeded, and with no local reference.
C22_EditContinueKeepsUploadedImages ==
  [][(AlertStep("edit", "continue") /\ PartialFailure /\ save'.res = "saved") =>
       \E r \in clothing_items' :
         /\ r.id = save.item
         /\ r.image_urls = StoredImages(save.images) \o UploadedUrls
         /\ \A n \in 1..Len(r.image_urls) : ~r.image_urls[n].local]_vars

\* The step is the save of the edit flow after all of its uploads succeeded.
EditAllUploaded ==
  /\ save.pc = "upload" /\ save.flow = "edit"
  /\ save'.pc = "done" /\ save'.res = "saved"

\* The position among the local images of the n-th entry of list.
LocalRank(list, n) == Len(LocalImages(SubSeq(list, 1, n)))

\* C26: when all k new local images of the edit flow are uploaded, the saved
\* image_urls has the length and order of the edited list, with every stored
\* url in place and the i-th local image replaced by the url of the i-th
\* upload.
C26_EachLocalImageGetsItsOwnUrl ==
  [][EditAllUploaded =>
       \E r \in clothing_items' :
         /\ r.id = save.item
         /\ Len(r.image_urls) = Len(save.images)
         /\ \A n \in 1..Len(save.images) :
              r.image_urls[n] =
                IF save.images[n].local
                THEN StoredImage(results[LocalRank(save.images, n)].url)
                ELSE save.images[n]]_vars

====
